---- MODULE Spec2Model ----
(***************************************************************************)
(* TinyScript front end: the scanner (lexer.rs), whose get_next_token is a  *)
(* function of the scanner's state, and the recursive-descent parser       *)
(* (parser.rs) and the scope-aware type checker (typecheck.rs), each as a  *)
(* call-stack machine. A frame is one activation of a Rust function; an    *)
(* action runs the top frame from its program point to its next call or to *)
(* its return.                                                             *)
(***************************************************************************)
EXTENDS Naturals, Sequences, FiniteSets, TLC

VARIABLES
    input,          \* Lexer.input, a sequence of characters
    position,       \* Lexer.position
    current_char,   \* Lexer.current_char
    next_token,     \* main's token: what get_next_token returned last
    after_eof,      \* how many calls of get_next_token followed the end-of-input marker
    tokens,         \* main's tokens, then Parser.tokens
    current_token,  \* Parser.current_token
    pstack,         \* activations of the parser's functions, innermost last
    pret,           \* value returned by the activation that ended last
    parsed,         \* what the caller has kept of an earlier parser's result
    scopes,         \* SemanticAnalyzer.scopes
    astack,         \* activations of check_types, innermost last
    aret            \* value returned by the check_types activation that ended last

vars ==
    <<input, position, current_char, next_token, after_eof,
      tokens, current_token, pstack, pret, parsed, scopes, astack, aret>>
lexer_vars == <<input, position, current_char, next_token, after_eof>>
parser_vars == <<tokens, current_token, pstack, pret, parsed>>
analyzer_vars == <<scopes, astack, aret>>

(***************************************************************************)
(* Bounds of the model.                                                    *)
(***************************************************************************)
\* longest token vector of the unstructured inputs
MaxLen == 2
\* most operands in a flat operator chain of the structured inputs
MaxOperands == 3
\* deepest nesting of blocks in the checked ASTs
MaxNest == 2
\* most scopes the analyzer may hold when a check starts
MaxScopes == 1
\* most scopes on the stack when enter_scope is called by itself
MaxDepth == 2
\* longest source of the unstructured sources
MaxSource == 3
\* most calls of get_next_token after it has returned the end-of-input marker
MaxCallsAfterEOF == 2

(***************************************************************************)
(* Values shared by both components.                                       *)
(***************************************************************************)
None == <<"None">>
Some(v) == <<"Some", v>>
Ok(v) == <<"Ok", v>>
Err(e) == <<"Err", e>>
IsOk(r) == r[1] = "Ok"
IsErr(r) == r[1] = "Err"
Last(s) == s[Len(s)]
Front(s) == SubSeq(s, 1, Len(s) - 1)

(***************************************************************************)
(* lexer.rs: enum Token.                                                   *)
(***************************************************************************)
Let == <<"Let">>
If == <<"If">>
Fn == <<"Fn">>
Else == <<"Else">>
While == <<"While">>
Return == <<"Return">>
TokIdentifier(name) == <<"Identifier", name>>
TokInteger(value) == <<"Integer", value>>
TokStringLiteral(value) == <<"StringLiteral", value>>
Plus == <<"Plus">>
Minus == <<"Minus">>
Star == <<"Star">>
Slash == <<"Slash">>
Equal == <<"Equal">>
NotEqual == <<"NotEqual">>
LessThan == <<"LessThan">>
GreaterThan == <<"GreaterThan">>
LParen == <<"LParen">>
RParen == <<"RParen">>
LBrace == <<"LBrace">>
RBrace == <<"RBrace">>
Comma == <<"Comma">>
Semicolon == <<"Semicolon">>
EOF == <<"EOF">>

(***************************************************************************)
(* lexer.rs: the characters. A source is a sequence of characters, each a  *)
(* string of one character.                                                *)
(***************************************************************************)
\* the characters get_next_token skips
Whitespace == {" ", "\t", "\n", "\r"}

\* '0'..='9'
Digits == {"0", "1", "2", "3", "4", "5", "6", "7", "8", "9"}

\* 'a'..='z' | 'A'..='Z'
AsciiLetters ==
    {"a", "b", "c", "d", "e", "f", "g", "h", "i", "j", "k", "l", "m",
     "n", "o", "p", "q", "r", "s", "t", "u", "v", "w", "x", "y", "z",
     "A", "B", "C", "D", "E", "F", "G", "H", "I", "J", "K", "L", "M",
     "N", "O", "P", "Q", "R", "S", "T", "U", "V", "W", "X", "Y", "Z"}

\* the characters of the model outside ASCII: a letter that UTF-8 encodes in two bytes
TwoByteLetters == {"é"}

\* char::is_alphanumeric
is_alphanumeric(ch) == ch \in AsciiLetters \cup Digits \cup TwoByteLetters

\* char::len_utf8
len_utf8(ch) == IF ch \in TwoByteLetters THEN 2 ELSE 1

\* String::len: the length of the source in bytes
RECURSIVE String_len(_)
String_len(src) ==
    IF src = <<>> THEN 0 ELSE len_utf8(Head(src)) + String_len(Tail(src))

\* the String made of the characters pushed to it
RECURSIVE String_from(_)
String_from(chars) ==
    IF chars = <<>> THEN "" ELSE Head(chars) \o String_from(Tail(chars))

\* str::parse::<i64> on a run of digits (the sources of the model hold fewer than
\* ten digits, far from the overflow that makes the unwrap panic)
RECURSIVE parse_i64(_)
parse_i64(digits) ==
    IF digits = <<>> THEN 0
    ELSE 10 * parse_i64(Front(digits))
         + (CHOOSE d \in 0..9 : <<"0", "1", "2", "3", "4", "5", "6", "7", "8", "9">>[d + 1]
                                    = Last(digits))

(***************************************************************************)
(* lexer.rs: struct Lexer. A scanner state is a record of position and     *)
(* current_char, and of the panic that ended the run ("" while it runs).   *)
(***************************************************************************)
\* what main holds in place of a token when the run has panicked
Panic(message) == <<"panic", message>>
UnwrapOnNone == "called Option::unwrap() on a None value"
UnexpectedCharacter == "Unexpected character"
UnterminatedStringLiteral == "Unterminated string literal"

\* Lexer::advance: position is compared with the length in bytes and then used as
\* an index of characters
Lexer_advance(src, l) ==
    IF l.position < String_len(src)
    THEN IF l.position < Len(src)
         THEN [l EXCEPT !.current_char = Some(src[l.position + 1]),
                        !.position = @ + 1]
         ELSE [l EXCEPT !.panic = UnwrapOnNone]
    ELSE [l EXCEPT !.current_char = None]

\* Lexer::new
Lexer_new(src) ==
    Lexer_advance(src, [position |-> 0, current_char |-> None, panic |-> ""])

\* a function of the scanner returns tok, unless an advance in it has panicked
Returned(l, tok) ==
    [lexer |-> l, token |-> IF l.panic # "" THEN Panic(l.panic) ELSE tok]

\* Lexer::identifier: the loop
RECURSIVE identifier_loop(_, _, _)
identifier_loop(src, l, result) ==
    IF l.panic = "" /\ l.current_char # None
          /\ (is_alphanumeric(l.current_char[2]) \/ l.current_char[2] = "_")
    THEN identifier_loop(src, Lexer_advance(src, l), Append(result, l.current_char[2]))
    ELSE [lexer |-> l, result |-> result]

\* Lexer::identifier
identifier(src, l) ==
    LET r == identifier_loop(src, l, <<>>)
        result == String_from(r.result)
    IN  Returned(r.lexer,
                 CASE result = "let" -> Let
                   [] result = "fn" -> Fn
                   [] result = "if" -> If
                   [] result = "else" -> Else
                   [] result = "while" -> While
                   [] result = "return" -> Return
                   [] OTHER -> TokIdentifier(result))

\* Lexer::integer_literal: the loop
RECURSIVE integer_literal_loop(_, _, _)
integer_literal_loop(src, l, result) ==
    IF l.panic = "" /\ l.current_char # None /\ l.current_char[2] \in Digits
    THEN integer_literal_loop(src, Lexer_advance(src, l), Append(result, l.current_char[2]))
    ELSE [lexer |-> l, result |-> result]

\* Lexer::integer_literal
integer_literal(src, l) ==
    LET r == integer_literal_loop(src, l, <<>>)
    IN  Returned(r.lexer, TokInteger(parse_i64(r.result)))

\* Lexer::string_literal: the loop, from the character after the opening quote
RECURSIVE string_literal_loop(_, _, _)
string_literal_loop(src, l, result) ==
    IF l.panic # "" THEN Returned(l, EOF)
    ELSE IF l.current_char = None THEN Returned([l EXCEPT !.panic = UnterminatedStringLiteral], EOF)
    ELSE IF l.current_char[2] = "\""
    THEN Returned(Lexer_advance(src, l), TokStringLiteral(String_from(result)))
    ELSE string_literal_loop(src, Lexer_advance(src, l), Append(result, l.current_char[2]))

\* Lexer::string_literal
string_literal(src, l) == string_literal_loop(src, Lexer_advance(src, l), <<>>)

\* get_next_token: the arms of one character that is a token by itself
OneCharToken(ch) ==
    CASE ch = "+" -> Plus
      [] ch = "-" -> Minus
      [] ch = "*" -> Star
      [] ch = "/" -> Slash
      [] ch = "=" -> Equal
      [] ch = ">" -> GreaterThan
      [] ch = "<" -> LessThan
      [] ch = "!" -> NotEqual
      [] ch = "(" -> LParen
      [] ch = ")" -> RParen
      [] ch = "{" -> LBrace
      [] ch = "}" -> RBrace
      [] ch = "," -> Comma
      [] ch = ";" -> Semicolon

OneCharTokens == {"+", "-", "*", "/", "=", ">", "<", "!", "(", ")", "{", "}", ",", ";"}

\* get_next_token, the arm of such a character: self.advance(); return the token
one_char_arm(src, l, ch) == Returned(Lexer_advance(src, l), OneCharToken(ch))

\* end_of_input starting the scan again
end_of_input_rewinding(src, l) == Returned(Lexer_new(src), EOF)

\* get_next_token past its loop: Token::EOF
end_of_input(src, l) == Returned(l, EOF)

\* Lexer::get_next_token on the scanner state l: [lexer, token]
RECURSIVE get_next_token(_, _)
get_next_token(src, l) ==
    IF l.panic # "" THEN Returned(l, EOF)
    ELSE IF l.current_char = None THEN end_of_input(src, l)
    ELSE LET ch == l.current_char[2] IN
         CASE ch \in Whitespace -> get_next_token(src, Lexer_advance(src, l))
           [] ch \in OneCharTokens -> one_char_arm(src, l, ch)
           [] ch = "\"" -> string_literal(src, l)
           [] ch \in Digits -> integer_literal(src, l)
           [] ch \in AsciiLetters \cup {"_"} -> identifier(src, l)
           [] OTHER -> Returned([l EXCEPT !.panic = UnexpectedCharacter], EOF)

(***************************************************************************)
(* parser.rs: enum ASTNode.                                                *)
(***************************************************************************)
Program(stmts) == <<"Program", stmts>>
StmtList(stmts) == <<"StmtList", stmts>>
LetStmt(name, expr) == <<"LetStmt", name, expr>>
IfStmt(condition, then_branch, else_branch) == <<"IfStmt", condition, then_branch, else_branch>>
WhileStmt(condition, body) == <<"WhileStmt", condition, body>>
ReturnStmt(expr) == <<"ReturnStmt", expr>>
Block(stmts) == <<"Block", stmts>>
ExprStmt(expr) == <<"ExprStmt", expr>>
BinaryOp(left, op, right) == <<"BinaryOp", left, op, right>>
Identifier(name) == <<"Identifier", name>>
Integer(value) == <<"Integer", value>>
StringLiteral(value) == <<"StringLiteral", value>>

(***************************************************************************)
(* parser.rs: the cursor.                                                  *)
(***************************************************************************)
\* Parser::advance, from cursor position pos
advance(pos) == IF pos < Len(tokens) THEN pos + 1 ELSE pos

\* Parser::current reading the vector's last token again past its end
current_last_token(pos) ==
    IF pos < Len(tokens) THEN tokens[pos + 1]
    ELSE IF tokens = <<>> THEN EOF ELSE Last(tokens)

\* Parser::current, at cursor position pos (the vector is 0-based in the code)
current(pos) == IF pos < Len(tokens) THEN tokens[pos + 1] ELSE EOF

\* the messages of the parser's errors
ExpectedFound(expected, found) == <<"Expected", expected, "found", found>>
ExpectedIdentifier == <<"Expected identifier">>
UnexpectedTokenInFactor == <<"Unexpected token in factor">>

\* Parser::expect at cursor position pos: Ok(new position) or Err(message)
expect(expected, pos) ==
    IF current(pos) = expected
    THEN Ok(advance(pos))
    ELSE Err(ExpectedFound(expected, current(pos)))

(***************************************************************************)
(* The parser's activations.                                               *)
(***************************************************************************)
\* a fresh activation of function fn, called with the cursor at pos: its locals
\* are not yet assigned; entry records pos for the statement of postconditions
\* and is read by no action
PFrame(fn, pos) ==
    [fn |-> fn, pc |-> "start", stmts |-> <<>>, identifier |-> "",
     condition |-> None, then_branch |-> None, node |-> None, op |-> None,
     entry |-> pos]

PTop == Last(pstack)
PAt(fn, pc) == pstack # <<>> /\ PTop.fn = fn /\ PTop.pc = pc

\* the top activation, suspended as frame, calls callee with the cursor at pos
PCall(frame, callee, pos) ==
    /\ pstack' = Append(Append(Front(pstack), frame), PFrame(callee, pos))
    /\ pret' = None
    /\ current_token' = pos
    /\ UNCHANGED <<tokens, parsed, analyzer_vars, lexer_vars>>

\* the top activation becomes an activation of callee (a call in tail position:
\* the callee's result is returned unchanged)
PTailCall(callee) ==
    /\ pstack' = Append(Front(pstack), PFrame(callee, PTop.entry))
    /\ pret' = None
    /\ UNCHANGED <<tokens, current_token, parsed, analyzer_vars, lexer_vars>>

\* the top activation returns r with the cursor at pos
PReturn(r, pos) ==
    /\ pstack' = Front(pstack)
    /\ pret' = r
    /\ current_token' = pos
    /\ UNCHANGED <<tokens, parsed, analyzer_vars, lexer_vars>>

\* the top activation goes on as frame with the cursor at pos
PGoto(frame, pos) ==
    /\ pstack' = Append(Front(pstack), frame)
    /\ pret' = None
    /\ current_token' = pos
    /\ UNCHANGED <<tokens, parsed, analyzer_vars, lexer_vars>>

\* Parser::parse_program: called once on a new parser
parse_program ==
    /\ pstack = <<>>
    /\ pret = None
    /\ pstack' = <<PFrame("parse_stmt_list", current_token)>>
    /\ UNCHANGED <<tokens, current_token, pret, parsed, analyzer_vars, lexer_vars>>

\* Parser::parse_stmt_list: the loop test, and the call or the return it leads to
parse_stmt_list_loop ==
    /\ PAt("parse_stmt_list", "start")
    /\ IF current(current_token) # EOF /\ current(current_token) # RBrace
       THEN PCall([PTop EXCEPT !.pc = "push"], "parse_stmt", current_token)
       ELSE PReturn(Ok(StmtList(PTop.stmts)), current_token)

\* Parser::parse_stmt_list: stmts.push(self.parse_stmt()?)
parse_stmt_list_push ==
    /\ PAt("parse_stmt_list", "push")
    /\ IF IsErr(pret)
       THEN PReturn(pret, current_token)
       ELSE PGoto([PTop EXCEPT !.pc = "start", !.stmts = Append(@, pret[2])],
                  current_token)

\* Parser::parse_stmt: dispatch on the current token
parse_stmt ==
    /\ PAt("parse_stmt", "start")
    /\ LET tok == current(current_token) IN
       PTailCall(CASE tok = Let -> "parse_let_stmt"
                   [] tok = If -> "parse_if_stmt"
                   [] tok = While -> "parse_while_stmt"
                   [] tok = Return -> "parse_return_stmt"
                   [] tok = LBrace -> "parse_block"
                   [] OTHER -> "parse_expr_stmt")

\* Parser::parse_let_stmt up to its call of parse_expr
parse_let_stmt ==
    /\ PAt("parse_let_stmt", "start")
    /\ LET e1 == expect(Let, current_token) IN
       IF IsErr(e1) THEN PReturn(e1, current_token)
       ELSE IF current(e1[2])[1] # "Identifier"
       THEN PReturn(Err(ExpectedIdentifier), e1[2])
       ELSE LET e2 == expect(Equal, advance(e1[2])) IN
            IF IsErr(e2) THEN PReturn(e2, advance(e1[2]))
            ELSE PCall([PTop EXCEPT !.pc = "expr", !.identifier = current(e1[2])[2]],
                       "parse_expr", e2[2])

\* Parser::parse_let_stmt from the return of parse_expr
parse_let_stmt_expr ==
    /\ PAt("parse_let_stmt", "expr")
    /\ IF IsErr(pret) THEN PReturn(pret, current_token)
       ELSE LET e == expect(Semicolon, current_token) IN
            IF IsErr(e) THEN PReturn(e, current_token)
            ELSE PReturn(Ok(LetStmt(PTop.identifier, pret[2])), e[2])

\* Parser::parse_if_stmt up to its call of parse_expr
parse_if_stmt ==
    /\ PAt("parse_if_stmt", "start")
    /\ LET e1 == expect(If, current_token) IN
       IF IsErr(e1) THEN PReturn(e1, current_token)
       ELSE LET e2 == expect(LParen, e1[2]) IN
            IF IsErr(e2) THEN PReturn(e2, e1[2])
            ELSE PCall([PTop EXCEPT !.pc = "condition"], "parse_expr", e2[2])

\* Parser::parse_if_stmt from the return of parse_expr to the call of parse_stmt
parse_if_stmt_condition ==
    /\ PAt("parse_if_stmt", "condition")
    /\ IF IsErr(pret) THEN PReturn(pret, current_token)
       ELSE LET e == expect(RParen, current_token) IN
            IF IsErr(e) THEN PReturn(e, current_token)
            ELSE PCall([PTop EXCEPT !.pc = "then", !.condition = pret[2]],
                       "parse_stmt", e[2])

\* parse_if_stmt_then without the advance past the else token
parse_if_stmt_then_keeps_else ==
    /\ PAt("parse_if_stmt", "then")
    /\ IF IsErr(pret) THEN PReturn(pret, current_token)
       ELSE IF current(current_token) = Else
       THEN PCall([PTop EXCEPT !.pc = "else", !.then_branch = pret[2]],
                  "parse_stmt", current_token)
       ELSE PReturn(Ok(IfStmt(PTop.condition, pret[2], None)), current_token)

\* Parser::parse_if_stmt from the return of the then-branch
parse_if_stmt_then ==
    /\ PAt("parse_if_stmt", "then")
    /\ IF IsErr(pret) THEN PReturn(pret, current_token)
       ELSE IF current(current_token) = Else
       THEN PCall([PTop EXCEPT !.pc = "else", !.then_branch = pret[2]],
                  "parse_stmt", advance(current_token))
       ELSE PReturn(Ok(IfStmt(PTop.condition, pret[2], None)), current_token)

\* Parser::parse_if_stmt from the return of the else-branch
parse_if_stmt_else ==
    /\ PAt("parse_if_stmt", "else")
    /\ IF IsErr(pret) THEN PReturn(pret, current_token)
       ELSE PReturn(Ok(IfStmt(PTop.condition, PTop.then_branch, Some(pret[2]))),
                    current_token)

\* Parser::parse_while_stmt up to its call of parse_expr
parse_while_stmt ==
    /\ PAt("parse_while_stmt", "start")
    /\ LET e1 == expect(While, current_token) IN
       IF IsErr(e1) THEN PReturn(e1, current_token)
       ELSE LET e2 == expect(LParen, e1[2]) IN
            IF IsErr(e2) THEN PReturn(e2, e1[2])
            ELSE PCall([PTop EXCEPT !.pc = "condition"], "parse_expr", e2[2])

\* Parser::parse_while_stmt from the return of parse_expr to the call of parse_stmt
parse_while_stmt_condition ==
    /\ PAt("parse_while_stmt", "condition")
    /\ IF IsErr(pret) THEN PReturn(pret, current_token)
       ELSE LET e == expect(RParen, current_token) IN
            IF IsErr(e) THEN PReturn(e, current_token)
            ELSE PCall([PTop EXCEPT !.pc = "body", !.condition = pret[2]],
                       "parse_stmt", e[2])

\* Parser::parse_while_stmt from the return of the body
parse_while_stmt_body ==
    /\ PAt("parse_while_stmt", "body")
    /\ IF IsErr(pret) THEN PReturn(pret, current_token)
       ELSE PReturn(Ok(WhileStmt(PTop.condition, pret[2])), current_token)

\* Parser::parse_return_stmt up to its call of parse_expr
parse_return_stmt ==
    /\ PAt("parse_return_stmt", "start")
    /\ LET e == expect(Return, current_token) IN
       IF IsErr(e) THEN PReturn(e, current_token)
       ELSE PCall([PTop EXCEPT !.pc = "expr"], "parse_expr", e[2])

\* Parser::parse_return_stmt from the return of parse_expr
parse_return_stmt_expr ==
    /\ PAt("parse_return_stmt", "expr")
    /\ IF IsErr(pret) THEN PReturn(pret, current_token)
       ELSE LET e == expect(Semicolon, current_token) IN
            IF IsErr(e) THEN PReturn(e, current_token)
            ELSE PReturn(Ok(ReturnStmt(pret[2])), e[2])

\* Parser::parse_block: expect('{')
parse_block ==
    /\ PAt("parse_block", "start")
    /\ LET e == expect(LBrace, current_token) IN
       IF IsErr(e) THEN PReturn(e, current_token)
       ELSE PGoto([PTop EXCEPT !.pc = "loop"], e[2])

\* Parser::parse_block: the loop test, and the call or the return it leads to
parse_block_loop ==
    /\ PAt("parse_block", "loop")
    /\ IF current(current_token) # RBrace
       THEN PCall([PTop EXCEPT !.pc = "push"], "parse_stmt", current_token)
       ELSE LET e == expect(RBrace, current_token) IN
            IF IsErr(e) THEN PReturn(e, current_token)
            ELSE PReturn(Ok(Block(PTop.stmts)), e[2])

\* parse_block_push leaving out a statement that failed
parse_block_push_skips_failed ==
    /\ PAt("parse_block", "push")
    /\ PGoto([PTop EXCEPT !.pc = "loop",
                          !.stmts = IF IsErr(pret) THEN @ ELSE Append(@, pret[2])],
             current_token)

\* Parser::parse_block: stmts.push(self.parse_stmt()?)
parse_block_push ==
    /\ PAt("parse_block", "push")
    /\ IF IsErr(pret)
       THEN PReturn(pret, current_token)
       ELSE PGoto([PTop EXCEPT !.pc = "loop", !.stmts = Append(@, pret[2])],
                  current_token)

\* Parser::parse_expr_stmt up to its call of parse_expr
parse_expr_stmt ==
    /\ PAt("parse_expr_stmt", "start")
    /\ PCall([PTop EXCEPT !.pc = "expr"], "parse_expr", current_token)

\* Parser::parse_expr_stmt from the return of parse_expr
parse_expr_stmt_expr ==
    /\ PAt("parse_expr_stmt", "expr")
    /\ IF IsErr(pret) THEN PReturn(pret, current_token)
       ELSE LET e == expect(Semicolon, current_token) IN
            IF IsErr(e) THEN PReturn(e, current_token)
            ELSE PReturn(Ok(ExprStmt(pret[2])), e[2])

\* the operators of parse_expr's loop
ExprOps == {Plus, Minus, GreaterThan, LessThan, Equal, NotEqual}

\* the operators of parse_term's loop
TermOps == {Star, Slash}

\* Parser::parse_expr: the call of parse_term for the first operand
parse_expr ==
    /\ PAt("parse_expr", "start")
    /\ PCall([PTop EXCEPT !.pc = "first"], "parse_term", current_token)

\* Parser::parse_expr: let mut node = self.parse_term()?
parse_expr_first ==
    /\ PAt("parse_expr", "first")
    /\ IF IsErr(pret) THEN PReturn(pret, current_token)
       ELSE PGoto([PTop EXCEPT !.pc = "loop", !.node = pret[2]], current_token)

\* parse_expr_loop taking * and / in the same tier as the other operators
parse_expr_loop_one_tier ==
    /\ PAt("parse_expr", "loop")
    /\ IF current(current_token) \in ExprOps \cup TermOps
       THEN PCall([PTop EXCEPT !.pc = "right", !.op = current(current_token)],
                  "parse_factor", advance(current_token))
       ELSE PReturn(Ok(PTop.node), current_token)

\* Parser::parse_expr: the loop test, and the call or the return it leads to
parse_expr_loop ==
    /\ PAt("parse_expr", "loop")
    /\ IF current(current_token) \in ExprOps
       THEN PCall([PTop EXCEPT !.pc = "right", !.op = current(current_token)],
                  "parse_term", advance(current_token))
       ELSE PReturn(Ok(PTop.node), current_token)

\* Parser::parse_expr: the right operand is back, the node grows to the left
parse_expr_right ==
    /\ PAt("parse_expr", "right")
    /\ IF IsErr(pret) THEN PReturn(pret, current_token)
       ELSE PGoto([PTop EXCEPT !.pc = "loop", !.op = None,
                               !.node = BinaryOp(@, PTop.op, pret[2])],
                  current_token)

\* Parser::parse_term: the call of parse_factor for the first operand
parse_term ==
    /\ PAt("parse_term", "start")
    /\ PCall([PTop EXCEPT !.pc = "first"], "parse_factor", current_token)

\* Parser::parse_term: let mut node = self.parse_factor()?
parse_term_first ==
    /\ PAt("parse_term", "first")
    /\ IF IsErr(pret) THEN PReturn(pret, current_token)
       ELSE PGoto([PTop EXCEPT !.pc = "loop", !.node = pret[2]], current_token)

\* Parser::parse_term: the loop test, and the call or the return it leads to
parse_term_loop ==
    /\ PAt("parse_term", "loop")
    /\ IF current(current_token) \in TermOps
       THEN PCall([PTop EXCEPT !.pc = "right", !.op = current(current_token)],
                  "parse_factor", advance(current_token))
       ELSE PReturn(Ok(PTop.node), current_token)

\* Parser::parse_term: the right operand is back, the node grows to the left
parse_term_right ==
    /\ PAt("parse_term", "right")
    /\ IF IsErr(pret) THEN PReturn(pret, current_token)
       ELSE PGoto([PTop EXCEPT !.pc = "loop", !.op = None,
                               !.node = BinaryOp(@, PTop.op, pret[2])],
                  current_token)

\* Parser::parse_factor: the match on the current token
parse_factor ==
    /\ PAt("parse_factor", "start")
    /\ LET tok == current(current_token) IN
       CASE tok = LParen ->
              PCall([PTop EXCEPT !.pc = "paren"], "parse_expr", advance(current_token))
         [] tok[1] = "Identifier" ->
              PReturn(Ok(Identifier(tok[2])), advance(current_token))
         [] tok[1] = "Integer" ->
              PReturn(Ok(Integer(tok[2])), advance(current_token))
         [] tok[1] = "StringLiteral" ->
              PReturn(Ok(StringLiteral(tok[2])), advance(current_token))
         [] OTHER ->
              PReturn(Err(UnexpectedTokenInFactor), current_token)

\* Parser::parse_factor: the parenthesized expression is back
parse_factor_paren ==
    /\ PAt("parse_factor", "paren")
    /\ IF IsErr(pret) THEN PReturn(pret, current_token)
       ELSE LET e == expect(RParen, current_token) IN
            IF IsErr(e) THEN PReturn(e, current_token)
            ELSE PReturn(Ok(pret[2]), e[2])

ParserBody ==
    \/ parse_stmt_list_loop
    \/ parse_stmt_list_push
    \/ parse_stmt
    \/ parse_let_stmt
    \/ parse_let_stmt_expr
    \/ parse_if_stmt
    \/ parse_if_stmt_condition
    \/ parse_if_stmt_then
    \/ parse_if_stmt_else
    \/ parse_while_stmt
    \/ parse_while_stmt_condition
    \/ parse_while_stmt_body
    \/ parse_return_stmt
    \/ parse_return_stmt_expr
    \/ parse_block
    \/ parse_block_loop
    \/ parse_block_push
    \/ parse_expr_stmt
    \/ parse_expr_stmt_expr
    \/ parse_expr
    \/ parse_expr_first
    \/ parse_expr_loop
    \/ parse_expr_right
    \/ parse_term
    \/ parse_term_first
    \/ parse_term_loop
    \/ parse_term_right
    \/ parse_factor
    \/ parse_factor_paren

ParserStep == parse_program \/ ParserBody

(***************************************************************************)
(* typecheck.rs: Type, SymbolEntry, SymbolTable.                           *)
(***************************************************************************)
Type_Integer == "Integer"
Type_String == "String"
Type_Boolean == "Boolean"

SymbolEntry(name, typ) == [name |-> name, typ |-> typ]

\* SymbolTable::new: no symbols, the given parent
SymbolTable_new(parent) == [symbols |-> <<>>, parent |-> parent]

\* SymbolTable_insert taking a name the parent copy declares as already defined
SymbolTable_insert_no_shadowing(table, name, typ) ==
    IF name \in DOMAIN table.symbols
          \/ (table.parent # None /\ name \in DOMAIN table.parent[2].symbols)
    THEN Err(<<"Symbol is already defined", name>>)
    ELSE Ok([table EXCEPT !.symbols =
                [n \in DOMAIN table.symbols \cup {name} |->
                    IF n = name THEN SymbolEntry(name, typ) ELSE table.symbols[n]]])

\* SymbolTable::insert: Ok(the table with the entry) or Err(message)
SymbolTable_insert(table, name, typ) ==
    IF name \in DOMAIN table.symbols
    THEN Err(<<"Symbol is already defined", name>>)
    ELSE Ok([table EXCEPT !.symbols =
                [n \in DOMAIN table.symbols \cup {name} |->
                    IF n = name THEN SymbolEntry(name, typ) ELSE table.symbols[n]]])

\* SymbolTable::lookup: the table's own entry, else the parent's answer
RECURSIVE SymbolTable_lookup(_, _)
SymbolTable_lookup(table, name) ==
    IF name \in DOMAIN table.symbols THEN Some(table.symbols[name])
    ELSE IF table.parent # None THEN SymbolTable_lookup(table.parent[2], name)
    ELSE None

(***************************************************************************)
(* typecheck.rs: SemanticAnalyzer.                                         *)
(***************************************************************************)
\* SemanticAnalyzer::new: the scope stack holding one global scope
SemanticAnalyzer_new == <<SymbolTable_new(None)>>

\* SemanticAnalyzer::enter_scope on stack s: the new scope's parent is a copy of
\* the last scope (last().unwrap() panics on an empty stack: no successor)
enter_scope(s) == Append(s, SymbolTable_new(Some(Last(s))))

\* exit_scope that pops nothing
exit_scope_keeps_scope(s) == s

\* SemanticAnalyzer::exit_scope on stack s (Vec::pop leaves an empty vector empty)
exit_scope(s) == IF s = <<>> THEN s ELSE Front(s)

\* declare_variable inserting into the scope that encloses the current one
declare_variable_in_enclosing(s, name, typ) ==
    LET k == IF Len(s) > 1 THEN Len(s) - 1 ELSE Len(s)
        r == SymbolTable_insert(s[k], name, typ)
    IN  IF IsErr(r) THEN r ELSE Ok([s EXCEPT ![k] = r[2]])

\* SemanticAnalyzer::declare_variable on stack s: Ok(the new stack) or Err(message)
declare_variable(s, name, typ) ==
    LET r == SymbolTable_insert(Last(s), name, typ)
    IN  IF IsErr(r) THEN r ELSE Ok(Append(Front(s), r[2]))

\* SemanticAnalyzer::lookup_variable: the scopes from index i down to the first
RECURSIVE lookup_from(_, _, _)
lookup_from(s, i, name) ==
    IF i = 0 THEN None
    ELSE LET entry == SymbolTable_lookup(s[i], name)
         IN  IF entry # None THEN Some(entry[2].typ) ELSE lookup_from(s, i - 1, name)

\* SemanticAnalyzer::lookup_variable on stack s
lookup_variable(s, name) == lookup_from(s, Len(s), name)

\* the messages of check_types' errors
NotCompatible(left_type, right_type, token) ==
    <<"Type error: not compatible with", left_type, right_type, token>>
CannotBeCompared(left_type, right_type, token) ==
    <<"Type error: cannot be compared with", left_type, right_type, token>>
UnknownBinaryOperator(token) == <<"Unknown binary operator", token>>
UndeclaredVariable(name) == <<"Undeclared variable", name>>
IfConditionNotBoolean == <<"Condition of if statement must be boolean">>
WhileConditionNotBoolean == <<"Condition of while statement must be boolean">>
UnknownASTNode(node) == <<"Unknown AST node type", node>>

\* binary_op_type testing the left operand alone for an arithmetic operator
binary_op_type_left_only(left_type, token, right_type) ==
    IF token \in {Plus, Minus, Star, Slash}
    THEN IF left_type = Type_Integer
         THEN Ok(Type_Integer)
         ELSE Err(NotCompatible(left_type, right_type, token))
    ELSE IF token \in {Equal, NotEqual, LessThan, GreaterThan}
    THEN IF left_type = right_type
         THEN Ok(Type_Boolean)
         ELSE Err(CannotBeCompared(left_type, right_type, token))
    ELSE Err(UnknownBinaryOperator(token))

\* check_types, BinaryOp arm: the match on the operator token
binary_op_type(left_type, token, right_type) ==
    IF token \in {Plus, Minus, Star, Slash}
    THEN IF left_type = Type_Integer /\ right_type = Type_Integer
         THEN Ok(Type_Integer)
         ELSE Err(NotCompatible(left_type, right_type, token))
    ELSE IF token \in {Equal, NotEqual, LessThan, GreaterThan}
    THEN IF left_type = right_type
         THEN Ok(Type_Boolean)
         ELSE Err(CannotBeCompared(left_type, right_type, token))
    ELSE Err(UnknownBinaryOperator(token))

(***************************************************************************)
(* The activations of check_types.                                         *)
(***************************************************************************)
\* a fresh activation of check_types(node), called with the scope stack s; entry
\* records s for the statement of postconditions and is read by no action
AFrame(node, s) ==
    [node |-> node, pc |-> "start", left_type |-> "", i |-> 0, entry |-> s]

ATop == Last(astack)
AAt(kind, pc) == astack # <<>> /\ ATop.node[1] = kind /\ ATop.pc = pc

\* the top activation, suspended as frame, calls check_types(child) with stack s
ACall(frame, child, s) ==
    /\ astack' = Append(Append(Front(astack), frame), AFrame(child, s))
    /\ aret' = None
    /\ scopes' = s
    /\ UNCHANGED <<parser_vars, lexer_vars>>

\* the top activation becomes check_types(child): the call is in tail position
ATailCall(child) ==
    /\ astack' = Append(Front(astack), AFrame(child, scopes))
    /\ aret' = None
    /\ UNCHANGED <<scopes, parser_vars, lexer_vars>>

\* the top activation returns r, leaving the stack s
AReturn(r, s) ==
    /\ astack' = Front(astack)
    /\ aret' = r
    /\ scopes' = s
    /\ UNCHANGED <<parser_vars, lexer_vars>>

\* the top activation goes on as frame with the stack s
AGoto(frame, s) ==
    /\ astack' = Append(Front(astack), frame)
    /\ aret' = None
    /\ scopes' = s
    /\ UNCHANGED <<parser_vars, lexer_vars>>

\* main: analyzer.check_types(&node) on an analyzer that is not checking
check_types(node) ==
    /\ astack = <<>>
    /\ Len(scopes) <= MaxScopes
    /\ astack' = <<AFrame(node, scopes)>>
    /\ aret' = None
    /\ UNCHANGED <<scopes, parser_vars, lexer_vars>>

\* BinaryOp arm: the call for the left operand
check_BinaryOp ==
    /\ AAt("BinaryOp", "start")
    /\ ACall([ATop EXCEPT !.pc = "left"], ATop.node[2], scopes)

\* BinaryOp arm: let left_type = self.check_types(left)?, the call for the right
check_BinaryOp_left ==
    /\ AAt("BinaryOp", "left")
    /\ IF IsErr(aret) THEN AReturn(aret, scopes)
       ELSE ACall([ATop EXCEPT !.pc = "right", !.left_type = aret[2]],
                  ATop.node[4], scopes)

\* BinaryOp arm: let right_type = self.check_types(right)?, the match on the token
check_BinaryOp_right ==
    /\ AAt("BinaryOp", "right")
    /\ IF IsErr(aret) THEN AReturn(aret, scopes)
       ELSE AReturn(binary_op_type(ATop.left_type, ATop.node[3], aret[2]), scopes)

\* Identifier arm
check_Identifier ==
    /\ AAt("Identifier", "start")
    /\ LET typ == lookup_variable(scopes, ATop.node[2]) IN
       IF typ # None
       THEN AReturn(Ok(typ[2]), scopes)
       ELSE AReturn(Err(UndeclaredVariable(ATop.node[2])), scopes)

\* Integer arm
check_Integer ==
    /\ AAt("Integer", "start")
    /\ AReturn(Ok(Type_Integer), scopes)

\* StringLiteral arm
check_StringLiteral ==
    /\ AAt("StringLiteral", "start")
    /\ AReturn(Ok(Type_String), scopes)

\* LetStmt arm: the call for the initializer
check_LetStmt ==
    /\ AAt("LetStmt", "start")
    /\ ACall([ATop EXCEPT !.pc = "expr"], ATop.node[3], scopes)

\* the LetStmt arm giving the existing entry the new type when the name is
\* already defined
check_LetStmt_expr_redeclaring ==
    /\ AAt("LetStmt", "expr")
    /\ IF IsErr(aret) THEN AReturn(aret, scopes)
       ELSE LET r == declare_variable(scopes, ATop.node[2], aret[2]) IN
            IF IsErr(r)
            THEN AReturn(r, [scopes EXCEPT
                                ![Len(scopes)].symbols[ATop.node[2]].typ = aret[2]])
            ELSE AReturn(Ok(aret[2]), r[2])

\* LetStmt arm: let expr_type = self.check_types(expr)?, declare_variable(..)?
check_LetStmt_expr ==
    /\ AAt("LetStmt", "expr")
    /\ IF IsErr(aret) THEN AReturn(aret, scopes)
       ELSE LET r == declare_variable(scopes, ATop.node[2], aret[2]) IN
            IF IsErr(r) THEN AReturn(r, scopes)
            ELSE AReturn(Ok(aret[2]), r[2])

\* IfStmt arm: the call for the condition
check_IfStmt ==
    /\ AAt("IfStmt", "start")
    /\ ACall([ATop EXCEPT !.pc = "condition"], ATop.node[2], scopes)

\* check_IfStmt_condition without the test of the condition's type
check_IfStmt_condition_any_type ==
    /\ AAt("IfStmt", "condition")
    /\ IF IsErr(aret) THEN AReturn(aret, scopes)
       ELSE ACall([ATop EXCEPT !.pc = "then"], ATop.node[3], scopes)

\* IfStmt arm: the condition is back; the call for the then-branch
check_IfStmt_condition ==
    /\ AAt("IfStmt", "condition")
    /\ IF IsErr(aret) THEN AReturn(aret, scopes)
       ELSE IF aret[2] # Type_Boolean
       THEN AReturn(Err(IfConditionNotBoolean), scopes)
       ELSE ACall([ATop EXCEPT !.pc = "then"], ATop.node[3], scopes)

\* check_IfStmt_then dropping what the then-branch has declared, as if the branch
\* had a scope of its own
check_IfStmt_then_own_scope ==
    /\ AAt("IfStmt", "then")
    /\ IF IsErr(aret) THEN AReturn(aret, scopes)
       ELSE IF ATop.node[4] # None
       THEN ACall([ATop EXCEPT !.pc = "else"], ATop.node[4][2], ATop.entry)
       ELSE AReturn(Ok(Type_Boolean), ATop.entry)

\* IfStmt arm: the then-branch is back; the call for the else-branch, if any
check_IfStmt_then ==
    /\ AAt("IfStmt", "then")
    /\ IF IsErr(aret) THEN AReturn(aret, scopes)
       ELSE IF ATop.node[4] # None
       THEN ACall([ATop EXCEPT !.pc = "else"], ATop.node[4][2], scopes)
       ELSE AReturn(Ok(Type_Boolean), scopes)

\* IfStmt arm: the else-branch is back
check_IfStmt_else ==
    /\ AAt("IfStmt", "else")
    /\ IF IsErr(aret) THEN AReturn(aret, scopes)
       ELSE AReturn(Ok(Type_Boolean), scopes)

\* WhileStmt arm: the call for the condition
check_WhileStmt ==
    /\ AAt("WhileStmt", "start")
    /\ ACall([ATop EXCEPT !.pc = "condition"], ATop.node[2], scopes)

\* WhileStmt arm: the condition is back; the call for the body
check_WhileStmt_condition ==
    /\ AAt("WhileStmt", "condition")
    /\ IF IsErr(aret) THEN AReturn(aret, scopes)
       ELSE IF aret[2] # Type_Boolean
       THEN AReturn(Err(WhileConditionNotBoolean), scopes)
       ELSE ACall([ATop EXCEPT !.pc = "body"], ATop.node[3], scopes)

\* WhileStmt arm: the body is back
check_WhileStmt_body ==
    /\ AAt("WhileStmt", "body")
    /\ IF IsErr(aret) THEN AReturn(aret, scopes)
       ELSE AReturn(Ok(Type_Boolean), scopes)

\* ReturnStmt arm: the call for the expression
check_ReturnStmt ==
    /\ AAt("ReturnStmt", "start")
    /\ ACall([ATop EXCEPT !.pc = "expr"], ATop.node[2], scopes)

\* ReturnStmt arm: let expr_type = self.check_types(expr)?; Ok(expr_type)
check_ReturnStmt_expr ==
    /\ AAt("ReturnStmt", "expr")
    /\ AReturn(aret, scopes)

\* Block arm: self.enter_scope()
check_Block ==
    /\ AAt("Block", "start")
    /\ AGoto([ATop EXCEPT !.pc = "loop"], enter_scope(scopes))

\* Block arm: the next statement's call, or exit_scope and the return after the last
check_Block_loop ==
    /\ AAt("Block", "loop")
    /\ IF ATop.i < Len(ATop.node[2])
       THEN ACall([ATop EXCEPT !.pc = "stmt"], ATop.node[2][ATop.i + 1], scopes)
       ELSE AReturn(Ok(Type_Boolean), exit_scope(scopes))

\* check_Block_stmt going on to the next statement after a failed one
check_Block_stmt_accumulating ==
    /\ AAt("Block", "stmt")
    /\ AGoto([ATop EXCEPT !.pc = "loop", !.i = @ + 1], scopes)

\* Block arm: self.check_types(stmt)?
check_Block_stmt ==
    /\ AAt("Block", "stmt")
    /\ IF IsErr(aret) THEN AReturn(aret, scopes)
       ELSE AGoto([ATop EXCEPT !.pc = "loop", !.i = @ + 1], scopes)

\* ExprStmt arm: self.check_types(expr)
check_ExprStmt ==
    /\ AAt("ExprStmt", "start")
    /\ ATailCall(ATop.node[2])

\* the arm of every other node: Program, StmtList
check_other ==
    /\ astack # <<>>
    /\ ATop.node[1] \in {"Program", "StmtList"}
    /\ AReturn(Err(UnknownASTNode(ATop.node)), scopes)

AnalyzerStep ==
    \/ check_BinaryOp
    \/ check_BinaryOp_left
    \/ check_BinaryOp_right
    \/ check_Identifier
    \/ check_Integer
    \/ check_StringLiteral
    \/ check_LetStmt
    \/ check_LetStmt_expr
    \/ check_IfStmt
    \/ check_IfStmt_condition
    \/ check_IfStmt_then
    \/ check_IfStmt_else
    \/ check_WhileStmt
    \/ check_WhileStmt_condition
    \/ check_WhileStmt_body
    \/ check_ReturnStmt
    \/ check_ReturnStmt_expr
    \/ check_Block
    \/ check_Block_loop
    \/ check_Block_stmt
    \/ check_ExprStmt
    \/ check_other

(***************************************************************************)
(* The token vectors handed to Parser::new.                                *)
(***************************************************************************)
\* one token of every kind the parser tells apart
Alphabet ==
    {Let, If, Else, While, Return, TokIdentifier("x"), TokInteger(1),
     TokStringLiteral("a"), Plus, Star, GreaterThan, Equal, LParen, RParen,
     LBrace, RBrace, Semicolon, Comma}

\* every vector over S of length n
RECURSIVE SeqsOfLen(_, _)
SeqsOfLen(S, n) ==
    IF n = 0 THEN {<<>>}
    ELSE {Append(s, t) : s \in SeqsOfLen(S, n - 1), t \in S}

\* every vector over S of length at most n
SeqsUpTo(S, n) == UNION {SeqsOfLen(S, k) : k \in 0..n}

Unstructured == SeqsUpTo(Alphabet, MaxLen)

AllOps == {Plus, Minus, Star, Slash, Equal, NotEqual, LessThan, GreaterThan}

\* the text of the operand at position i of a chain
OperandText(i) == <<"a", "b", "c", "d", "e", "f", "g", "h">>[i]

\* the operands of a chain, told apart by their position
OperandSets ==
    {[i \in 1..MaxOperands |-> TokIdentifier(OperandText(i))],
     [i \in 1..MaxOperands |-> TokInteger(i)],
     [i \in 1..MaxOperands |-> TokStringLiteral(OperandText(i))]}

\* operand op operand ... op operand, with n operators
RECURSIVE ChainsOf(_, _)
ChainsOf(operands, n) ==
    IF n = 0 THEN {<<operands[1]>>}
    ELSE {c \o <<op, operands[n + 1]>> : c \in ChainsOf(operands, n - 1), op \in AllOps}

\* flat operator chains as expression statements
Chains ==
    {c \o <<Semicolon>> :
        c \in UNION {ChainsOf(o, n) : o \in OperandSets, n \in 0..(MaxOperands - 1)}}

\* ( a op b ) op c ;  and  a op ( b op c ) ;
Parenthesized ==
    LET a == TokIdentifier("a")
        b == TokIdentifier("b")
        c == TokIdentifier("c")
    IN  {<<LParen, a, op1, b, RParen, op2, c, Semicolon>> : op1 \in AllOps, op2 \in AllOps}
        \cup
        {<<a, op1, LParen, b, op2, c, RParen, Semicolon>> : op1 \in AllOps, op2 \in AllOps}

\* statements with their trees: [toks, node]
SampleStmts ==
    {[toks |-> <<TokIdentifier("s"), Semicolon>>,
      node |-> ExprStmt(Identifier("s"))],
     [toks |-> <<LBrace, Return, TokInteger(1), Semicolon, RBrace>>,
      node |-> Block(<<ReturnStmt(Integer(1))>>)],
     [toks |-> <<Let, TokIdentifier("x"), Equal, TokInteger(1), Semicolon>>,
      node |-> LetStmt("x", Integer(1))]}

\* conditions with their trees: [toks, node]
SampleConds ==
    {[toks |-> <<TokIdentifier("a")>>, node |-> Identifier("a")],
     [toks |-> <<TokIdentifier("x"), GreaterThan, TokInteger(10)>>,
      node |-> BinaryOp(Identifier("x"), GreaterThan, Integer(10))]}

IfHead(c) == <<If, LParen>> \o c.toks \o <<RParen>>

\* if ( c ) s1   and   if ( c ) s1 else s2   with their trees
IfCases ==
    {[toks |-> IfHead(c) \o s1.toks,
      node |-> IfStmt(c.node, s1.node, None)] : c \in SampleConds, s1 \in SampleStmts}
    \cup
    {[toks |-> IfHead(c) \o s1.toks \o <<Else>> \o s2.toks,
      node |-> IfStmt(c.node, s1.node, Some(s2.node))] :
        c \in SampleConds, s1 \in SampleStmts, s2 \in SampleStmts}

\* if ( a ) if ( b ) s1 else s2: the else belongs to the inner if
DanglingElseCases ==
    LET a == [toks |-> <<TokIdentifier("a")>>, node |-> Identifier("a")]
        b == [toks |-> <<TokIdentifier("b")>>, node |-> Identifier("b")]
    IN  {[toks |-> IfHead(a) \o IfHead(b) \o s1.toks \o <<Else>> \o s2.toks,
          node |-> IfStmt(a.node, IfStmt(b.node, s1.node, Some(s2.node)), None)] :
            s1 \in SampleStmts, s2 \in SampleStmts}

\* while ( c ) s with its tree
WhileCases ==
    {[toks |-> <<While, LParen>> \o c.toks \o <<RParen>> \o s1.toks,
      node |-> WhileStmt(c.node, s1.node)] : c \in SampleConds, s1 \in SampleStmts}

\* main.rs: the tokens of the example program
ExampleProgram ==
    <<Let, TokIdentifier("x"), Equal, TokInteger(42), Semicolon,
      If, LParen, TokIdentifier("x"), GreaterThan, TokInteger(10), RParen, LBrace,
      Let, TokIdentifier("y"), Equal, TokIdentifier("x"), Plus, TokInteger(5), Semicolon,
      TokIdentifier("print"), LParen, TokIdentifier("y"), RParen, Semicolon,
      RBrace>>

\* the vectors as main.rs builds them (the scanner's end-of-input marker dropped)
Unterminated ==
    Unstructured \cup Chains \cup Parenthesized
    \cup {c.toks : c \in IfCases \cup DanglingElseCases \cup WhileCases}
    \cup {ExampleProgram}

\* each vector as it is, and terminated by the end-of-input marker
TokenVectors == Unterminated \cup {Append(t, EOF) : t \in Unterminated}

(***************************************************************************)
(* The parser alone.                                                       *)
(***************************************************************************)
\* Parser::new(tokens)
Parser_new(vector) ==
    /\ tokens = vector
    /\ current_token = 0
    /\ pstack = <<>>
    /\ pret = None

\* no scanner has run: the token vector is handed to Parser::new as it is
NoLexer ==
    /\ input = <<>>
    /\ position = 0
    /\ current_char = None
    /\ next_token = None
    /\ after_eof = 0

InitParser ==
    /\ \E vector \in TokenVectors : Parser_new(vector)
    /\ parsed = None
    /\ scopes = <<>>
    /\ astack = <<>>
    /\ aret = None
    /\ NoLexer

SpecParser == InitParser /\ [][ParserStep]_vars

\* the parser runs on while a step is left to it: nothing suspends it
SpecParserRuns == SpecParser /\ WF_vars(ParserStep)

(***************************************************************************)
(* The parser on a vector as main.rs builds it, then on the same vector    *)
(* with the end-of-input marker that the scanner returned.                 *)
(***************************************************************************)
\* vectors that hold the marker before their end
MarkerInside ==
    {<<EOF>>, <<EOF, TokIdentifier("x"), Semicolon>>,
     <<TokIdentifier("x"), EOF, Semicolon>>, <<LBrace, EOF, RBrace>>,
     <<TokIdentifier("x"), Plus, EOF, TokInteger(1), Semicolon>>}

InitMarker ==
    /\ \E vector \in Unterminated \cup MarkerInside : Parser_new(vector)
    /\ parsed = None
    /\ scopes = <<>>
    /\ astack = <<>>
    /\ aret = None
    /\ NoLexer

\* the caller keeps parse_program's result and makes a new parser of the vector
\* with the marker pushed: Parser::new(tokens)
parse_with_marker ==
    /\ pstack = <<>>
    /\ pret # None
    /\ parsed = None
    /\ parsed' = pret
    /\ tokens' = Append(tokens, EOF)
    /\ current_token' = 0
    /\ pstack' = <<>>
    /\ pret' = None
    /\ UNCHANGED <<analyzer_vars, lexer_vars>>

MarkerNext == parse_program \/ ParserBody \/ parse_with_marker

SpecMarker == InitMarker /\ [][MarkerNext]_vars

(***************************************************************************)
(* The nodes handed to check_types.                                        *)
(***************************************************************************)
\* 1 > 2: an expression of type Boolean
BoolExpr == BinaryOp(Integer(1), GreaterThan, Integer(2))

\* one operand of each type
Operands == {Integer(1), StringLiteral("a"), BoolExpr}

\* every operator of the parser, and a token that is no operator, over operands
\* of every pair of types and over two names
BinaryOps ==
    {BinaryOp(l, op, r) : l \in Operands, op \in AllOps \cup {Comma}, r \in Operands}
    \cup {BinaryOp(Identifier("x"), op, Identifier("y")) : op \in AllOps}

\* let statements: x of each type, from a name, from an ill-typed expression; y a String
Lets ==
    {LetStmt("x", e) :
        e \in {Integer(1), StringLiteral("a"), BoolExpr, Identifier("x"),
               BinaryOp(Integer(1), Plus, StringLiteral("a"))}}
    \cup {LetStmt("y", StringLiteral("a"))}

Uses == {ExprStmt(Identifier("x")), ExprStmt(Identifier("y"))}

SimpleStmts == Lets \cup Uses \cup {ReturnStmt(Identifier("x"))}

\* blocks of at most two statements
FlatBlocks ==
    {Block(<<>>)} \cup {Block(<<s>>) : s \in SimpleStmts}
    \cup {Block(<<s1, s2>>) : s1 \in Lets, s2 \in Lets \cup Uses}

\* the statements around a nested block
NestStmts ==
    {LetStmt("x", Integer(1)), LetStmt("x", StringLiteral("a")),
     ExprStmt(Identifier("x"))}

\* blocks nested at most d deep, a statement before or after the inner block
RECURSIVE NestedBlocks(_)
NestedBlocks(d) ==
    IF d <= 1 THEN {Block(<<s>>) : s \in NestStmts}
    ELSE LET inner == NestedBlocks(d - 1)
         IN  inner
             \cup {Block(<<s, b>>) : s \in NestStmts, b \in inner}
             \cup {Block(<<b, s>>) : s \in NestStmts, b \in inner}

Conditions == {Integer(1), BoolExpr, Identifier("x")}

Branches ==
    {Block(<<ExprStmt(Identifier("y"))>>), LetStmt("x", Integer(1)),
     ExprStmt(Identifier("y"))}

Ifs ==
    {IfStmt(c, t, e) :
        c \in Conditions, t \in Branches, e \in {None} \cup {Some(b) : b \in Branches}}
    \cup {IfStmt(Integer(1), Block(<<>>), None)}

Whiles == {WhileStmt(c, b) : c \in Conditions, b \in Branches}

\* an if or a while inside a block, a block that fails inside each
Guarded ==
    LET failing == Block(<<ExprStmt(Identifier("y"))>>)
    IN  {Block(<<IfStmt(BoolExpr, failing, None)>>),
         Block(<<IfStmt(BoolExpr, Block(<<>>), Some(failing))>>),
         Block(<<WhileStmt(BoolExpr, failing)>>)}

\* a let as the unbraced then-branch, else-branch and while body, a use of its
\* name after the if or while; lets of one name as both branches of an if
UnbracedLets ==
    LET let == LetStmt("x", Integer(1))
        use == ExprStmt(Identifier("x"))
    IN  {Block(<<IfStmt(BoolExpr, let, None), use>>),
         Block(<<IfStmt(BoolExpr, Block(<<>>), Some(let)), use>>),
         Block(<<WhileStmt(BoolExpr, let), use>>),
         IfStmt(BoolExpr, let, Some(LetStmt("x", StringLiteral("a"))))}

\* the roots the parser returns for an empty and for a one-statement program
Roots == {StmtList(<<>>), StmtList(<<LetStmt("x", Integer(42))>>), Program(<<>>)}

CheckedNodes ==
    BinaryOps \cup SimpleStmts \cup FlatBlocks \cup NestedBlocks(MaxNest)
    \cup Ifs \cup Whiles \cup Guarded \cup UnbracedLets \cup Roots

(***************************************************************************)
(* The analyzer alone.                                                     *)
(***************************************************************************)
InitAnalyzer ==
    /\ scopes = SemanticAnalyzer_new
    /\ astack = <<>>
    /\ aret = None
    /\ Parser_new(<<>>)
    /\ parsed = None
    /\ NoLexer

AnalyzerNext ==
    \/ \E node \in CheckedNodes : check_types(node)
    \/ AnalyzerStep

SpecAnalyzer == InitAnalyzer /\ [][AnalyzerNext]_vars

(***************************************************************************)
(* The scope stack alone: enter_scope, declare_variable and exit_scope     *)
(* called in any order on a new analyzer.                                  *)
(***************************************************************************)
Types == {Type_Integer, Type_String, Type_Boolean}

\* analyzer.enter_scope()
call_enter_scope ==
    /\ astack = <<>>
    /\ scopes # <<>>
    /\ Len(scopes) <= MaxDepth
    /\ scopes' = enter_scope(scopes)
    /\ UNCHANGED <<astack, aret, parser_vars, lexer_vars>>

\* analyzer.declare_variable(name, typ): the result is kept as check_types' is
call_declare_variable ==
    /\ astack = <<>>
    /\ scopes # <<>>
    /\ \E name \in {"x", "y"}, typ \in Types :
          LET r == declare_variable(scopes, name, typ) IN
          /\ scopes' = IF IsOk(r) THEN r[2] ELSE scopes
          /\ aret' = IF IsOk(r) THEN Ok(typ) ELSE r
    /\ UNCHANGED <<astack, parser_vars, lexer_vars>>

\* analyzer.exit_scope(), the global scope left in place
call_exit_scope ==
    /\ astack = <<>>
    /\ Len(scopes) > 1
    /\ scopes' = exit_scope(scopes)
    /\ UNCHANGED <<astack, aret, parser_vars, lexer_vars>>

ScopesNext == call_enter_scope \/ call_declare_variable \/ call_exit_scope

SpecScopes == InitAnalyzer /\ [][ScopesNext]_vars

(***************************************************************************)
(* The scanner as main drives it.                                          *)
(***************************************************************************)
\* the scanner's state
TheLexer == [position |-> position, current_char |-> current_char, panic |-> ""]

\* the run has ended in a panic
Panicked == next_token[1] = "panic"

\* main: one turn of the loop that collects the tokens up to the end-of-input marker
main_loop ==
    /\ next_token # EOF
    /\ ~Panicked
    /\ pstack = <<>>
    /\ LET r == get_next_token(input, TheLexer) IN
       /\ position' = r.lexer.position
       /\ current_char' = r.lexer.current_char
       /\ next_token' = r.token
       /\ tokens' = IF r.token = EOF \/ r.token[1] = "panic"
                    THEN tokens
                    ELSE Append(tokens, r.token)
    /\ UNCHANGED <<input, after_eof, current_token, pstack, pret, parsed, analyzer_vars>>

\* a caller that goes on calling get_next_token after the end-of-input marker
get_next_token_again ==
    /\ next_token = EOF
    /\ after_eof < MaxCallsAfterEOF
    /\ LET r == get_next_token(input, TheLexer) IN
       /\ position' = r.lexer.position
       /\ current_char' = r.lexer.current_char
       /\ next_token' = r.token
    /\ after_eof' = after_eof + 1
    /\ UNCHANGED <<input, parser_vars, analyzer_vars>>

\* one character of every class the scanner tells apart
SourceAlphabet ==
    {" ", "\n", "+", ";", "\"", "1", "l", "e", "t", "_", "é", "@"}

\* sources of whitespace alone
WhitespaceSources == {<<a>> : a \in Whitespace} \cup {<<a, b>> : a \in Whitespace, b \in Whitespace}

\* two characters that are tokens by themselves, side by side
OneCharPairs == {<<a, b>> : a \in OneCharTokens, b \in OneCharTokens}

\* let x = 10 + 20;
LetSource ==
    <<"l", "e", "t", " ", "x", " ", "=", " ", "1", "0", " ", "+", " ", "2", "0", ";">>

\* sources of words with the tokens the scanner is to return for them: [src, toks]
WordExamples ==
    {[src |-> <<"l", "e", "t", "x">>, toks |-> <<TokIdentifier("letx")>>],
     [src |-> <<"l", "e", "t", "_">>, toks |-> <<TokIdentifier("let_")>>],
     [src |-> <<"i", "f", "f">>, toks |-> <<TokIdentifier("iff")>>],
     [src |-> <<"l", "e", "t", " ", "x">>, toks |-> <<Let, TokIdentifier("x")>>],
     [src |-> <<"1", "a", "b", "c">>, toks |-> <<TokInteger(1), TokIdentifier("abc")>>],
     [src |-> <<"f", "n">>, toks |-> <<Fn>>],
     [src |-> <<"i", "f">>, toks |-> <<If>>],
     [src |-> <<"e", "l", "s", "e">>, toks |-> <<Else>>],
     [src |-> <<"w", "h", "i", "l", "e">>, toks |-> <<While>>],
     [src |-> <<"r", "e", "t", "u", "r", "n">>, toks |-> <<Return>>],
     [src |-> <<"L", "e", "t">>, toks |-> <<TokIdentifier("Let")>>]}

\* sources of operator characters with their tokens
OperatorExamples ==
    {[src |-> <<"!", "=">>, toks |-> <<NotEqual, Equal>>],
     [src |-> <<"=", "=">>, toks |-> <<Equal, Equal>>],
     [src |-> <<"!">>, toks |-> <<NotEqual>>]}

\* sources of string literals with their tokens
StringExamples ==
    {[src |-> <<"\"", "\"">>, toks |-> <<TokStringLiteral("")>>],
     [src |-> <<"\"", "a", " ", "\n", "b", "\"", ";">>,
      toks |-> <<TokStringLiteral("a \nb"), Semicolon>>],
     [src |-> <<"\"", "é", "\"">>, toks |-> <<TokStringLiteral("é")>>]}

\* the sources handed to Lexer::new
Sources ==
    SeqsUpTo(SourceAlphabet, MaxSource) \cup WhitespaceSources \cup OneCharPairs
    \cup {e.src : e \in WordExamples \cup OperatorExamples \cup StringExamples}
    \cup {LetSource, <<"\"", "a", "b", "c">>, <<"x", "é", ";", ";">>,
          <<"\"", "é", "\"", ";", ";">>}

\* main: Lexer::new(input) and an empty vector of tokens
InitLexer ==
    /\ \E src \in Sources :
          /\ input = src
          /\ position = Lexer_new(src).position
          /\ current_char = Lexer_new(src).current_char
    /\ next_token = None
    /\ after_eof = 0
    /\ Parser_new(<<>>)
    /\ parsed = None
    /\ scopes = <<>>
    /\ astack = <<>>
    /\ aret = None

LexerNext == main_loop \/ get_next_token_again

SpecLexer == InitLexer /\ [][LexerNext]_vars

(***************************************************************************)
(* Claims about the parser.                                                *)
(***************************************************************************)
\* parse_program has returned
ParseDone == pstack = <<>> /\ pret # None

\* the token vector without its end-of-input marker, when it has one
Unmarked(toks) ==
    IF toks # <<>> /\ Last(toks) = EOF THEN Front(toks) ELSE toks

\* C1: whenever parse_program returns success, the cursor stands at the
\* end-of-input marker: every token before it has been consumed.
C1_SuccessConsumesEveryToken ==
    (ParseDone /\ IsOk(pret)) => current(current_token) = EOF

\* C10: every error the parser returns names the expected token and the token
\* found at the cursor.
C10_ErrorNamesExpectedAndFound ==
    IsErr(pret) =>
        /\ Len(pret[2]) = 4
        /\ pret[2][1] = "Expected"
        /\ pret[2][4] = current(current_token)

\* the two precedence tiers as the grammar states them
LooseOps == {Plus, Minus, GreaterThan, LessThan, Equal, NotEqual}
TightOps == {Star, Slash}

\* how many parentheses are open at position k of toks
OpenAt(toks, k) ==
    Cardinality({i \in 1..k : toks[i] = LParen})
        - Cardinality({i \in 1..k : toks[i] = RParen})

\* the position of the last operator of tier ops outside parentheses, 0 if none
LastOutside(toks, ops) ==
    LET ks == {k \in 1..Len(toks) : toks[k] \in ops /\ OpenAt(toks, k) = 0}
    IN  IF ks = {} THEN 0 ELSE CHOOSE k \in ks : \A j \in ks : j <= k

\* the tree the grammar gives an expression: a left-associative fold of each tier
RECURSIVE TierTree(_, _)
TierTree(toks, tier) ==
    LET size == Len(toks)
        k == LastOutside(toks, IF tier = "expr" THEN LooseOps ELSE TightOps)
    IN  CASE tier = "factor" /\ toks[1] = LParen ->
                TierTree(SubSeq(toks, 2, size - 1), "expr")
          [] tier = "factor" /\ toks[1] # LParen ->
                <<toks[1][1], toks[1][2]>>
          [] tier = "term" /\ k = 0 -> TierTree(toks, "factor")
          [] tier = "term" /\ k # 0 ->
                BinaryOp(TierTree(SubSeq(toks, 1, k - 1), "term"), toks[k],
                         TierTree(SubSeq(toks, k + 1, size), "factor"))
          [] tier = "expr" /\ k = 0 -> TierTree(toks, "term")
          [] tier = "expr" /\ k # 0 ->
                BinaryOp(TierTree(SubSeq(toks, 1, k - 1), "expr"), toks[k],
                         TierTree(SubSeq(toks, k + 1, size), "term"))

\* the shapes the claim names, over operands a, b, c
PrecedenceExamples ==
    LET a == Identifier("a")
        b == Identifier("b")
        c == Identifier("c")
        ta == TokIdentifier("a")
        tb == TokIdentifier("b")
        tc == TokIdentifier("c")
    IN  {[toks |-> <<ta, Plus, tb, Star, tc, Semicolon>>,
          node |-> BinaryOp(a, Plus, BinaryOp(b, Star, c))],
         [toks |-> <<ta, Minus, tb, Minus, tc, Semicolon>>,
          node |-> BinaryOp(BinaryOp(a, Minus, b), Minus, c)],
         [toks |-> <<ta, Plus, tb, GreaterThan, tc, Semicolon>>,
          node |-> BinaryOp(BinaryOp(a, Plus, b), GreaterThan, c)],
         [toks |-> <<ta, GreaterThan, tb, GreaterThan, tc, Semicolon>>,
          node |-> BinaryOp(BinaryOp(a, GreaterThan, b), GreaterThan, c)],
         [toks |-> <<ta, GreaterThan, tb, Plus, tc, Semicolon>>,
          node |-> BinaryOp(BinaryOp(a, GreaterThan, b), Plus, c)],
         [toks |-> <<ta, Star, tb, Slash, tc, Semicolon>>,
          node |-> BinaryOp(BinaryOp(a, Star, b), Slash, c)],
         [toks |-> <<ta, Star, LParen, tb, Plus, tc, RParen, Semicolon>>,
          node |-> BinaryOp(a, Star, BinaryOp(b, Plus, c))]}

\* C8: an expression statement parses to the tree of two left-associative tiers,
\* * and / binding tighter than + - > < = !, a parenthesized expression being one
\* factor; in particular the shapes of PrecedenceExamples.
C8_TwoLeftAssociativeTiers ==
    ParseDone =>
        /\ Unmarked(tokens) \in Chains \cup Parenthesized =>
              pret = Ok(StmtList(<<ExprStmt(TierTree(Front(Unmarked(tokens)), "expr"))>>))
        /\ \A e \in PrecedenceExamples :
              Unmarked(tokens) = e.toks => pret = Ok(StmtList(<<ExprStmt(e.node)>>))

\* a > b + c has been parsed as (a > b) + c
C8_Witness ==
    /\ ParseDone
    /\ tokens = <<TokIdentifier("a"), GreaterThan, TokIdentifier("b"), Plus,
                  TokIdentifier("c"), Semicolon, EOF>>
    /\ pret = Ok(StmtList(<<ExprStmt(
                BinaryOp(BinaryOp(Identifier("a"), GreaterThan, Identifier("b")),
                         Plus, Identifier("c")))>>))

\* C9: if ( expr ) stmt, optionally followed by else stmt, parses to an if node with
\* the condition, one then-statement, and an else-branch exactly when an else token
\* follows the then-statement; in if (a) if (b) s1 else s2 the else-branch belongs
\* to the inner if and the outer if has none.
C9_ElseBindsToNearestIf ==
    ParseDone =>
        \A c \in IfCases \cup DanglingElseCases :
            Unmarked(tokens) = c.toks => pret = Ok(StmtList(<<c.node>>))

\* if (a) if (b) s; else s; has been parsed, the else-branch inside the inner if
C9_Witness ==
    /\ ParseDone
    /\ Unmarked(tokens) =
          <<If, LParen, TokIdentifier("a"), RParen, If, LParen, TokIdentifier("b"),
            RParen, TokIdentifier("s"), Semicolon, Else, TokIdentifier("s"), Semicolon>>
    /\ IsOk(pret)
    /\ pret[2][2][1][4] = None
    /\ pret[2][2][1][3][4] = Some(ExprStmt(Identifier("s")))

\* C17: parse_program returns for every token vector; every activation that
\* returns success, the statement list apart, has consumed at least one token, so
\* each turn of the statement-list, block and operator loops consumes a token or
\* ends in an error; a block that is not closed ends in an error at the
\* end-of-input marker; the cursor never passes the number of tokens.
C17_ParseProgramReturns ==
    /\ <>ParseDone
    /\ [](current_token <= Len(tokens))
    /\ [][(pstack # <<>> /\ pstack' = Front(pstack) /\ IsOk(pret')
              /\ PTop.fn # "parse_stmt_list") => current_token' > PTop.entry]_vars
    /\ []((ParseDone /\ Unmarked(tokens) \in {<<LBrace>>, <<LBrace, TokIdentifier("x")>>,
                                              <<LBrace, LBrace>>})
             => (IsErr(pret) /\ current(current_token) = EOF))

\* { x has ended in an error at the end of the vector
C17_Witness ==
    /\ ParseDone
    /\ tokens = <<LBrace, TokIdentifier("x")>>
    /\ IsErr(pret)
    /\ current_token = Len(tokens)

(***************************************************************************)
(* main.rs: the scanner, then the parser, then the analyzer.               *)
(***************************************************************************)
\* let x = 42;
LetProgram ==
    <<"l", "e", "t", " ", "x", " ", "=", " ", "4", "2", ";">>

\* the program that main.rs holds, with less of its indentation
MainProgram ==
    <<"l", "e", "t", " ", "x", " ", "=", " ", "4", "2", ";", "\n", "i",
      "f", " ", "(", "x", " ", ">", " ", "1", "0", ")", " ", "{", "\n",
      " ", " ", "l", "e", "t", " ", "y", " ", "=", " ", "x", " ", "+", " ",
      "5", ";", "\n", " ", " ", "p", "r", "i", "n", "t", "(", "y", ")",
      ";", "\n", "}", "\n">>

\* while (x < 1) { return (x + 1) * 2; } if (x) x; else y;
LoopProgram ==
    <<"w", "h", "i", "l", "e", " ", "(", "x", " ", "<", " ", "1", ")", " ",
      "{", " ", "r", "e", "t", "u", "r", "n", " ", "(", "x", " ", "+", " ",
      "1", ")", " ", "*", " ", "2", ";", " ", "}", " ", "i", "f", " ", "(",
      "x", ")", " ", "x", ";", " ", "e", "l", "s", "e", " ", "y", ";">>

\* let x = 1 + "a";
IllTypedProgram ==
    <<"l", "e", "t", " ", "x", " ", "=", " ", "1", " ", "+", " ", "\"",
      "a", "\"", ";">>

Programs == {<<>>, LetProgram, MainProgram, LoopProgram, IllTypedProgram}

\* main: the input, Lexer::new(input) and an empty vector of tokens
InitMain ==
    /\ \E src \in Programs :
          /\ input = src
          /\ position = Lexer_new(src).position
          /\ current_char = Lexer_new(src).current_char
    /\ next_token = None
    /\ after_eof = 0
    /\ Parser_new(<<>>)
    /\ parsed = None
    /\ scopes = <<>>
    /\ astack = <<>>
    /\ aret = None

\* main: Parser::new(tokens) and parser.parse_program(), once the loop has ended
main_parse == next_token = EOF /\ parse_program

\* main: SemanticAnalyzer::new() and analyzer.check_types(&ast), when parse_program
\* has returned an AST (expect panics on an error)
main_check_types ==
    /\ ParseDone
    /\ IsOk(pret)
    /\ astack = <<>>
    /\ aret = None
    /\ scopes' = SemanticAnalyzer_new
    /\ astack' = <<AFrame(pret[2], SemanticAnalyzer_new)>>
    /\ UNCHANGED <<aret, parser_vars, lexer_vars>>

\* main's steps in their order: the loop over get_next_token up to the marker, the
\* parser on the collected tokens, check_types on the root, whose arm is the last one
MainNext ==
    \/ main_loop
    \/ main_parse
    \/ ParserBody
    \/ main_check_types
    \/ check_other

SpecMain == InitMain /\ [][MainNext]_vars

(***************************************************************************)
(* Claims about the analyzer.                                              *)
(***************************************************************************)
Names == {"x", "y"}

\* the step pops the top activation, an activation of node kind
Returns(kind) ==
    /\ astack # <<>>
    /\ ATop.node[1] = kind
    /\ astack' = Front(astack)

\* the step pushes an activation for child on top of the suspended top activation
Calls(child) ==
    /\ Len(astack') = Len(astack) + 1
    /\ Last(astack').node = child
    /\ Last(astack').pc = "start"

\* the type name has by the innermost open scope that declares it, if any: the
\* scopes' own symbols, no parent copy consulted
Declared(s, name) ==
    LET ks == {k \in 1..Len(s) : name \in DOMAIN s[k].symbols}
    IN  IF ks = {} THEN None
        ELSE Some(s[CHOOSE k \in ks : \A j \in ks : j <= k].symbols[name].typ)

\* C2: whenever check_types returns from a Block node, with success or with an
\* error, the scope stack is the one the block was entered with.
C2_BlockReturnRestoresScopes ==
    [][Returns("Block") => scopes' = ATop.entry]_vars

\* the activations of Block nodes that have entered their scope
OpenBlocks ==
    {k \in 1..Len(astack) : astack[k].node[1] = "Block" /\ astack[k].pc # "start"}

\* C3: while check_types runs, called with the global scope alone, the scope stack
\* is non-empty and its depth is 1 plus the number of Block nodes being traversed.
C3_DepthIsOnePlusOpenBlocks ==
    (astack # <<>> /\ Len(astack[1].entry) = 1) =>
        /\ scopes # <<>>
        /\ Len(scopes) = 1 + Cardinality(OpenBlocks)

\* the type of an operand whose type the scopes s decide without a check
OperandType(e, s) ==
    CASE e[1] = "Integer" -> Some(Type_Integer)
      [] e[1] = "StringLiteral" -> Some(Type_String)
      [] e = BoolExpr -> Some(Type_Boolean)
      [] e[1] = "Identifier" -> Declared(s, e[2])
      [] OTHER -> None

\* C4: a binary operation over operands of types l and r returns Integer for
\* + - * / exactly when l and r are Integer, Boolean for = != < > exactly when
\* l = r, and an error otherwise.
C4_BinaryOpTyping ==
    [][(AAt("BinaryOp", "right")
            /\ OperandType(ATop.node[2], scopes) # None
            /\ OperandType(ATop.node[4], scopes) # None) =>
        LET l == OperandType(ATop.node[2], scopes)[2]
            r == OperandType(ATop.node[4], scopes)[2]
            op == ATop.node[3]
        IN  /\ Returns("BinaryOp")
            /\ op \in {Plus, Minus, Star, Slash} =>
                  IF l = Type_Integer /\ r = Type_Integer
                  THEN aret' = Ok(Type_Integer) ELSE IsErr(aret')
            /\ op \in {Equal, NotEqual, LessThan, GreaterThan} =>
                  IF l = r THEN aret' = Ok(Type_Boolean) ELSE IsErr(aret')]_vars

\* x + y has failed, x an Integer and y a String
C4_Witness ==
    /\ aret = Err(NotCompatible(Type_Integer, Type_String, Plus))
    /\ Declared(scopes, "x") = Some(Type_Integer)
    /\ Declared(scopes, "y") = Some(Type_String)

\* C5: a let statement fails with the duplicate-declaration error for its name
\* exactly when the current scope already declares the name, whatever the types;
\* a declaration of the name in an enclosing scope does not make it fail.
C5_DuplicateOnlyInSameScope ==
    [][(AAt("LetStmt", "expr") /\ IsOk(aret)) =>
        LET name == ATop.node[2] IN
        IF name \in DOMAIN Last(scopes).symbols
        THEN /\ aret' = Err(<<"Symbol is already defined", name>>)
             /\ scopes' = scopes
        ELSE /\ aret' = Ok(aret[2])
             /\ Front(scopes') = Front(scopes)
             /\ Declared(scopes', name) = Some(aret[2])]_vars

\* in a block, a first let x has shadowed the global x and a second let x has failed
C5_Witness ==
    /\ aret = Err(<<"Symbol is already defined", "x">>)
    /\ Len(scopes) = 2
    /\ "x" \in DOMAIN scopes[1].symbols
    /\ "x" \in DOMAIN scopes[2].symbols
    /\ scopes[1].symbols["x"].typ # scopes[2].symbols["x"].typ

\* C6: a name resolves to its innermost open declaration; when a block has been
\* checked successfully every name resolves as it did before the block, so a name
\* declared only inside is undeclared and a shadowed name has its outer type again.
C6_BlockDeclarationsEndWithBlock ==
    [][/\ \A n \in Names : lookup_variable(scopes, n) = Declared(scopes, n)
       /\ \A n \in Names : lookup_variable(scopes', n) = Declared(scopes', n)
       /\ (Returns("Block") /\ IsOk(aret')) =>
             /\ scopes' = ATop.entry
             /\ \A n \in Names :
                   lookup_variable(scopes', n) = lookup_variable(ATop.entry, n)]_vars

\* { let x = 1; } has been checked and x; has then failed as undeclared
C6_Witness ==
    /\ AAt("Block", "stmt")
    /\ ATop.node = Block(<<Block(<<LetStmt("x", Integer(1))>>), ExprStmt(Identifier("x"))>>)
    /\ ATop.i = 1
    /\ aret = Err(UndeclaredVariable("x"))

\* C7: an if or a while whose condition is not Boolean returns an error before a
\* branch or the body is checked; when the condition is Boolean the then-branch,
\* the else-branch if any, and the body are checked and the result is Boolean.
C7_ConditionMustBeBoolean ==
    [][/\ ((AAt("IfStmt", "condition") \/ AAt("WhileStmt", "condition")) /\ IsOk(aret)) =>
             IF aret[2] # Type_Boolean
             THEN astack' = Front(astack) /\ IsErr(aret')
             ELSE Calls(ATop.node[3])
       /\ (AAt("IfStmt", "then") /\ IsOk(aret)) =>
             IF ATop.node[4] # None
             THEN Calls(ATop.node[4][2])
             ELSE astack' = Front(astack) /\ aret' = Ok(Type_Boolean)
       /\ ((AAt("IfStmt", "else") \/ AAt("WhileStmt", "body")) /\ IsOk(aret)) =>
             astack' = Front(astack) /\ aret' = Ok(Type_Boolean)]_vars

\* if (1) { } has failed on its condition
C7_Witness ==
    /\ astack = <<>>
    /\ aret = Err(IfConditionNotBoolean)
    /\ scopes = SemanticAnalyzer_new

(***************************************************************************)
(* The order of the traversal.                                             *)
(***************************************************************************)
\* the step makes the top activation return the error its callee returned
Propagates ==
    /\ astack' = Front(astack)
    /\ aret' = aret

\* the top activation has the result of the call it made from its arm
Resumed == astack # <<>> /\ ATop.pc # "start" /\ aret # None

\* nodes whose first two violations differ, the scopes they are checked with,
\* and the error of the violation that comes first in the traversal
FirstViolations ==
    {[node |-> BinaryOp(Identifier("x"), Plus, Identifier("y")),
      x |-> None, y |-> None,
      error |-> UndeclaredVariable("x")],
     [node |-> BinaryOp(Identifier("x"), Plus, Identifier("y")),
      x |-> Some(Type_String), y |-> None,
      error |-> UndeclaredVariable("y")],
     [node |-> IfStmt(Identifier("x"), ExprStmt(Identifier("y")), None),
      x |-> None, y |-> None,
      error |-> UndeclaredVariable("x")],
     [node |-> IfStmt(Integer(1), ExprStmt(Identifier("y")), None),
      x |-> None, y |-> None,
      error |-> IfConditionNotBoolean],
     [node |-> IfStmt(BoolExpr, ExprStmt(Identifier("y")), Some(LetStmt("x", Integer(1)))),
      x |-> Some(Type_Integer), y |-> None,
      error |-> UndeclaredVariable("y")],
     [node |-> WhileStmt(Integer(1), ExprStmt(Identifier("y"))),
      x |-> None, y |-> None,
      error |-> WhileConditionNotBoolean],
     [node |-> Block(<<LetStmt("x", Identifier("x")), ExprStmt(Identifier("y"))>>),
      x |-> None, y |-> None,
      error |-> UndeclaredVariable("x")],
     [node |-> LetStmt("x", BinaryOp(Integer(1), Plus, StringLiteral("a"))),
      x |-> Some(Type_Integer), y |-> None,
      error |-> NotCompatible(Type_Integer, Type_String, Plus)]}

\* C11: check_types fails with the first violation of its traversal order and
\* visits no node after it: an activation whose callee failed returns that error
\* at once; a binary operation checks left, then right, then the operator; an if
\* or while its condition, then the then-branch or body, then the else-branch; a
\* block its statements in order; a let its initializer before it declares.
C11_FirstViolationInTraversalOrder ==
    [][/\ (Resumed /\ IsErr(aret)) => Propagates
       /\ (AAt("BinaryOp", "start") \/ AAt("IfStmt", "start") \/ AAt("WhileStmt", "start"))
             => Calls(ATop.node[2])
       /\ (AAt("BinaryOp", "left") /\ IsOk(aret)) => Calls(ATop.node[4])
       /\ (Returns("BinaryOp") /\ IsErr(aret') /\ aret' # aret)
             => (AAt("BinaryOp", "right") /\ IsOk(aret))
       /\ ((AAt("IfStmt", "condition") \/ AAt("WhileStmt", "condition"))
              /\ aret = Ok(Type_Boolean)) => Calls(ATop.node[3])
       /\ (AAt("IfStmt", "then") /\ IsOk(aret) /\ ATop.node[4] # None)
             => Calls(ATop.node[4][2])
       /\ (AAt("Block", "loop") /\ ATop.i < Len(ATop.node[2]))
             => Calls(ATop.node[2][ATop.i + 1])
       /\ (AAt("Block", "stmt") /\ IsOk(aret))
             => (astack'[Len(astack)].i = ATop.i + 1 /\ Len(astack') = Len(astack))
       /\ AAt("LetStmt", "start") => (Calls(ATop.node[3]) /\ scopes' = scopes)
       /\ (Returns("LetStmt") /\ aret' = Err(<<"Symbol is already defined", ATop.node[2]>>))
             => (AAt("LetStmt", "expr") /\ IsOk(aret))
       /\ \A v \in FirstViolations :
             (astack # <<>> /\ astack' = Front(astack) /\ ATop.node = v.node
                /\ Declared(ATop.entry, "x") = v.x /\ Declared(ATop.entry, "y") = v.y
                /\ (v.node[1] = "LetStmt" => "x" \in DOMAIN Last(ATop.entry).symbols))
             => aret' = Err(v.error)]_vars

\* in x + y, neither name declared, the left operand has failed and the right
\* operand has not been visited
C11_Witness ==
    /\ AAt("BinaryOp", "left")
    /\ ATop.node = BinaryOp(Identifier("x"), Plus, Identifier("y"))
    /\ aret = Err(UndeclaredVariable("x"))
    /\ Declared(scopes, "y") = None

(***************************************************************************)
(* Claims about the scanner.                                               *)
(***************************************************************************)
\* the index, from 0, of the character the scanner is at; Len(input) at the end
cursor == IF current_char = None THEN position ELSE position - 1

\* the same of the scanner after the step
cursor_after == IF current_char' = None THEN position' ELSE position' - 1

\* main is about to call get_next_token
Scanning == next_token # EOF /\ ~Panicked

\* the index, from 1, of the first character at or after index i that is no
\* whitespace; 0 if there is none
LexemeStart(src, i) ==
    LET ks == {k \in i..Len(src) : src[k] \notin Whitespace}
    IN  IF ks = {} THEN 0 ELSE CHOOSE k \in ks : \A j \in ks : k <= j

\* the index, from 1, of the character the lexeme of the next call starts at; 0 at
\* the end of the source
NextLexeme == LexemeStart(input, cursor + 1)

\* the index of the last character of the longest run of characters of S that
\* starts at index i
RunEnd(src, i, S) ==
    CHOOSE j \in i..Len(src) :
        /\ \A k \in i..j : src[k] \in S
        /\ j = Len(src) \/ src[j + 1] \notin S

\* the characters of a word; the keywords with their tokens; the operator
\* characters and the delimiters with their tokens
WordChars == AsciiLetters \cup TwoByteLetters \cup Digits \cup {"_"}
Keywords ==
    {<<"let", Let>>, <<"fn", Fn>>, <<"if", If>>, <<"else", Else>>,
     <<"while", While>>, <<"return", Return>>}
Operators ==
    {<<"+", Plus>>, <<"-", Minus>>, <<"*", Star>>, <<"/", Slash>>, <<"=", Equal>>,
     <<">", GreaterThan>>, <<"<", LessThan>>, <<"!", NotEqual>>}
Delimiters ==
    {<<"(", LParen>>, <<")", RParen>>, <<"{", LBrace>>, <<"}", RBrace>>,
     <<",", Comma>>, <<";", Semicolon>>}

\* the token paired with key in the table, which has the key
TokenOf(table, key) == (CHOOSE pair \in table : pair[1] = key)[2]

\* the token of a word
WordToken(text) ==
    IF \E pair \in Keywords : pair[1] = text
    THEN TokenOf(Keywords, text)
    ELSE TokIdentifier(text)

\* what stands in a token sequence for a source that cannot be scanned
Fatal == <<"fatal">>

\* the index of the quote that closes the string literal opened at index s; 0 if none
ClosingQuote(src, s) ==
    LET quotes == {k \in (s + 1)..Len(src) : src[k] = "\""}
    IN  IF quotes = {} THEN 0 ELSE CHOOSE k \in quotes : \A j \in quotes : k <= j

\* the tokens of the lexemes of src from index i on, in source order
RECURSIVE LexemeTokens(_, _)
LexemeTokens(src, i) ==
    LET s == LexemeStart(src, i) IN
    IF i > Len(src) \/ s = 0 THEN <<>>
    ELSE LET c == src[s]
             quotes == {k \in (s + 1)..Len(src) : src[k] = "\""}
             close == CHOOSE k \in quotes : \A j \in quotes : k <= j
             digits == RunEnd(src, s, Digits)
             word == RunEnd(src, s, WordChars)
         IN  CASE c \in {pair[1] : pair \in Operators \cup Delimiters} ->
                    <<TokenOf(Operators \cup Delimiters, c)>> \o LexemeTokens(src, s + 1)
               [] c = "\"" /\ quotes # {} ->
                    <<TokStringLiteral(String_from(SubSeq(src, s + 1, close - 1)))>>
                        \o LexemeTokens(src, close + 1)
               [] c \in Digits ->
                    <<TokInteger(parse_i64(SubSeq(src, s, digits)))>>
                        \o LexemeTokens(src, digits + 1)
               [] c \in AsciiLetters \cup {"_"} ->
                    <<WordToken(String_from(SubSeq(src, s, word)))>>
                        \o LexemeTokens(src, word + 1)
               [] OTHER -> <<Fatal>>

\* what repeated calls of get_next_token return from the scanner state l on, up to
\* the end-of-input marker or the panic
RECURSIVE ScanFrom(_, _)
ScanFrom(src, l) ==
    LET r == get_next_token(src, l) IN
    IF r.token = EOF \/ r.token[1] = "panic" THEN <<r.token>>
    ELSE <<r.token>> \o ScanFrom(src, r.lexer)

Scan(src) == ScanFrom(src, Lexer_new(src))

\* src with the character ch put in before the character at index i, from 0
InsertAt(src, i, ch) == SubSeq(src, 1, i) \o <<ch>> \o SubSeq(src, i + 1, Len(src))

\* src holds a character that no lexeme starts with or a string literal that is
\* not closed: the fatal conditions of the scanner
HasFatalLexeme(src) ==
    \E k \in 1..Len(LexemeTokens(src, 1)) : LexemeTokens(src, 1)[k] = Fatal

\* src holds a character encoded in more than one byte
HasWideCharacter(src) == \E k \in 1..Len(src) : len_utf8(src[k]) > 1

\* the calls that have ended with the end-of-input marker have returned the tokens
\* of the lexemes; the tokens of let x = 10 + 20; a source of whitespace alone
\* gives the marker alone; a whitespace character put in where the scanner stands
\* between two calls changes nothing in what the calls return
TokensAreLexemes ==
    /\ next_token = EOF => tokens = LexemeTokens(input, 1)
    /\ input = LetSource =>
          /\ ~Panicked
          /\ LET all == <<Let, TokIdentifier("x"), Equal, TokInteger(10), Plus,
                          TokInteger(20), Semicolon>>
             IN  IF next_token = EOF THEN tokens = all
                 ELSE Len(tokens) <= 7 /\ tokens = SubSeq(all, 1, Len(tokens))
    /\ (\A k \in 1..Len(input) : input[k] \in Whitespace) =>
          /\ tokens = <<>>
          /\ next_token \in {None, EOF}
          /\ Scan(input) = <<EOF>>
    /\ ~Panicked =>
          \A ch \in Whitespace : Scan(InsertAt(input, cursor, ch)) = Scan(input)

\* C12: repeated calls of get_next_token return one token per lexeme, in source
\* order, and none for whitespace, and end with the end-of-input marker, whatever
\* the source, unless it meets a fatal condition of the scanner; let x = 10 + 20;
\* gives let, x, =, 10, +, 20, ; and the marker; a source of whitespace alone gives
\* the marker alone; more whitespace between lexemes changes nothing.
C12_OneTokenPerLexemeInOrder ==
    /\ TokensAreLexemes
    /\ Panicked => HasFatalLexeme(input)

\* C13: once get_next_token has returned the end-of-input marker, every later call
\* returns the marker again and leaves position and current_char as they were; no
\* other token follows the marker.
C13_EndOfInputIsFinal ==
    [][next_token = EOF =>
          /\ next_token' = EOF
          /\ position' = position
          /\ current_char' = current_char
          /\ tokens' = tokens]_vars

\* get_next_token has been called after the marker that ended a source of two tokens
C13_Witness ==
    /\ next_token = EOF
    /\ after_eof > 0
    /\ Len(tokens) = 2

\* C14: a call at a quote returns the string literal of the characters up to the
\* next quote, whatever they are, and leaves the scanner just past that quote, from
\* where scanning goes on; "" gives the empty literal; with no closing quote the
\* call ends in the unterminated-string panic and returns no token.
C14_StringLiteralUpToNextQuote ==
    [][/\ (Scanning /\ NextLexeme # 0 /\ input[NextLexeme] = "\"") =>
             LET close == ClosingQuote(input, NextLexeme) IN
             IF close = 0
             THEN next_token' = Panic(UnterminatedStringLiteral) /\ tokens' = tokens
             ELSE /\ next_token' =
                        TokStringLiteral(String_from(SubSeq(input, NextLexeme + 1, close - 1)))
                  /\ tokens' = Append(tokens, next_token')
                  /\ cursor_after = close
       /\ \A e \in StringExamples :
             input = e.src =>
                /\ next_token'[1] # "panic"
                /\ next_token' = EOF => tokens' = e.toks]_vars

\* C15: a call at one of + - * / = > < ! returns the token of that character and
\* moves the scanner on by that one character, whatever follows: != gives
\* not-equal, equals; == gives equals, equals; ! alone gives not-equal.
C15_OperatorsAreOneCharacter ==
    [][/\ (Scanning /\ NextLexeme # 0
              /\ input[NextLexeme] \in {pair[1] : pair \in Operators}) =>
             /\ next_token' = TokenOf(Operators, input[NextLexeme])
             /\ tokens' = Append(tokens, next_token')
             /\ cursor_after = NextLexeme
       /\ \A e \in OperatorExamples :
             input = e.src =>
                /\ next_token'[1] # "panic"
                /\ next_token' = EOF => tokens' = e.toks]_vars

\* C16: a call at an ASCII letter or an underscore takes the longest run of
\* letters, digits and underscores and returns the keyword token when the run is
\* one of let, fn, if, else, while, return, and else the identifier of the run;
\* letx, let_ and iff are identifiers, let x is a keyword and an identifier, and
\* 1abc is the integer 1 and the identifier abc.
C16_WordIsLongestRun ==
    [][/\ (Scanning /\ NextLexeme # 0 /\ input[NextLexeme] \in AsciiLetters \cup {"_"}) =>
             LET end == RunEnd(input, NextLexeme, WordChars) IN
             /\ next_token' = WordToken(String_from(SubSeq(input, NextLexeme, end)))
             /\ tokens' = Append(tokens, next_token')
             /\ cursor_after = end
       /\ \A e \in WordExamples :
             input = e.src =>
                /\ next_token'[1] # "panic"
                /\ next_token' = EOF => tokens' = e.toks]_vars

(***************************************************************************)
(* Claims about the scope stack.                                           *)
(***************************************************************************)
\* a lookup that follows live links: from scope k of s outwards, the type the
\* first scope that declares name gives it
RECURSIVE LinkedLookup(_, _, _)
LinkedLookup(s, k, name) ==
    IF k = 0 THEN None
    ELSE IF name \in DOMAIN s[k].symbols THEN Some(s[k].symbols[name].typ)
    ELSE LinkedLookup(s, k - 1, name)

\* C18: after any calls of enter_scope, declare_variable and exit_scope that keep
\* the stack non-empty, every scope's parent copy equals the scope below it as it
\* is now, and lookup_variable returns what a lookup over live links returns: the
\* type the innermost open scope that declares the name gives it, or none.
C18_CopiedParentsAreNeverStale ==
    /\ scopes # <<>>
    /\ scopes[1].parent = None
    /\ \A k \in 2..Len(scopes) : scopes[k].parent = Some(scopes[k - 1])
    /\ \A name \in Names :
          /\ lookup_variable(scopes, name) = LinkedLookup(scopes, Len(scopes), name)
          /\ \A k \in 1..Len(scopes) :
                LET entry == SymbolTable_lookup(scopes[k], name) IN
                (IF entry = None THEN None ELSE Some(entry[2].typ))
                    = LinkedLookup(scopes, k, name)

\* x is declared in the global scope and, with another type, in the scope opened
\* on it; a third scope is open and declares only y
C18_Witness ==
    /\ Len(scopes) = 3
    /\ DOMAIN scopes[3].symbols = {"y"}
    /\ "x" \in DOMAIN scopes[2].symbols
    /\ "x" \in DOMAIN scopes[1].symbols
    /\ scopes[1].symbols["x"].typ # scopes[2].symbols["x"].typ
    /\ lookup_variable(scopes, "x") = Some(scopes[2].symbols["x"].typ)

\* C20: a let statement that fails declares nothing: while its initializer is
\* checked and when it returns an error (the initializer ill typed, a name
\* undeclared, the let's own name among them, or the name already defined in the
\* current scope) every scope holds the entries it held when the let began, so an
\* already defined name keeps its first type; a use of a name gets the type that
\* the innermost scope declaring it holds.
C20_FailedLetDeclaresNothing ==
    /\ [](\A k \in 1..Len(astack) :
            astack[k].node[1] = "LetStmt" => scopes = astack[k].entry)
    /\ [][(Returns("LetStmt") /\ IsErr(aret')) =>
            LET name == ATop.node[2] IN
            /\ scopes' = ATop.entry
            /\ \A n \in Names :
                  lookup_variable(scopes', n) = lookup_variable(ATop.entry, n)
            /\ aret' = Err(<<"Symbol is already defined", name>>) =>
                  /\ name \in DOMAIN Last(ATop.entry).symbols
                  /\ lookup_variable(scopes', name)
                        = Some(Last(ATop.entry).symbols[name].typ)
            /\ (ATop.node[3] = Identifier(name)
                    /\ lookup_variable(ATop.entry, name) = None) =>
                  /\ aret' = Err(UndeclaredVariable(name))
                  /\ lookup_variable(scopes', name) = None]_vars
    /\ [][Returns("Identifier") =>
            LET typ == Declared(scopes, ATop.node[2]) IN
            /\ scopes' = scopes
            /\ aret' = IF typ = None THEN Err(UndeclaredVariable(ATop.node[2]))
                       ELSE Ok(typ[2])]_vars

\* in a block, let x = 1; has declared x, let x = "a"; has failed and x is an
\* Integer still
C20_Witness ==
    /\ AAt("Block", "stmt")
    /\ ATop.node = Block(<<LetStmt("x", Integer(1)), LetStmt("x", StringLiteral("a"))>>)
    /\ aret = Err(<<"Symbol is already defined", "x">>)
    /\ Last(scopes).symbols["x"].typ = Type_Integer

\* node is a let statement with a literal as its initializer
IsLiteralLet(node) ==
    node[1] = "LetStmt" /\ node[3][1] \in {"Integer", "StringLiteral"}

\* C21: only a Block opens a scope. A let that is the unbraced then-branch,
\* else-branch or while body declares its name in the scope the if or while was
\* entered in; when the if or while has returned its stack is as deep as at entry
\* and the name resolves, so a use after it is well typed; an if whose two
\* branches are unbraced lets of one name fails with the duplicate-declaration
\* error for it.
C21_OnlyBlocksOpenAScope ==
    /\ [][Len(scopes') > Len(scopes) =>
            /\ AAt("Block", "start")
            /\ scopes' = enter_scope(scopes)]_vars
    /\ [][(Returns("LetStmt") /\ IsOk(aret') /\ Len(astack) > 1
                /\ astack[Len(astack) - 1].node[1] \in {"IfStmt", "WhileStmt"}) =>
            LET parent == astack[Len(astack) - 1]
                name == ATop.node[2]
            IN  /\ Len(scopes') = Len(parent.entry)
                /\ Front(scopes') = Front(parent.entry)
                /\ name \in DOMAIN Last(scopes').symbols
                /\ Last(scopes').symbols[name].typ = aret'[2]]_vars
    /\ [][((Returns("IfStmt") \/ Returns("WhileStmt")) /\ IsOk(aret')) =>
            /\ scopes' = scopes
            /\ Len(scopes') = Len(ATop.entry)
            /\ \A k \in {3, 4} :
                  LET branch == IF k = 3 THEN ATop.node[3]
                                ELSE IF ATop.node[1] = "IfStmt" /\ ATop.node[4] # None
                                THEN ATop.node[4][2]
                                ELSE ATop.node[3]
                  IN  branch[1] = "LetStmt" =>
                         /\ branch[2] \in DOMAIN Last(scopes').symbols
                         /\ lookup_variable(scopes', branch[2]) # None]_vars
    /\ [][(Returns("IfStmt") /\ ATop.pc # "condition" /\ ATop.node[4] # None
                /\ IsLiteralLet(ATop.node[3]) /\ IsLiteralLet(ATop.node[4][2])
                /\ ATop.node[3][2] = ATop.node[4][2][2]) =>
            aret' = Err(<<"Symbol is already defined", ATop.node[3][2]>>)]_vars
    /\ [](\A node \in UnbracedLets :
            (AAt("Block", "stmt") /\ ATop.node = node /\ ATop.i = 1 /\ aret # None) =>
                aret = Ok(Type_Integer))

\* in a block, while (1 > 2) let x = 1; has been checked and x; after it is an
\* Integer
C21_Witness ==
    /\ AAt("Block", "stmt")
    /\ ATop.node = Block(<<WhileStmt(BoolExpr, LetStmt("x", Integer(1))),
                           ExprStmt(Identifier("x"))>>)
    /\ ATop.i = 1
    /\ aret = Ok(Type_Integer)
    /\ "x" \in DOMAIN Last(scopes).symbols

(***************************************************************************)
(* Claims about the end-of-input marker.                                   *)
(***************************************************************************)
\* C22: the parser reads the end-of-input marker at its cursor whenever the
\* cursor is at or past the end of the vector, and the cursor never passes the
\* end; parse_program on a vector with the marker pushed at its end returns what
\* it has returned on the vector without it, the same tree or the same error.
C22_MarkerMayBeLeftOut ==
    /\ current_token <= Len(tokens)
    /\ \A pos \in Len(tokens)..(Len(tokens) + 1) : current(pos) = EOF
    /\ advance(Len(tokens)) = Len(tokens)
    /\ (parsed # None /\ ParseDone) => pret = parsed

\* x + has failed at the end of the vector, then x + with the marker likewise
C22_Witness ==
    /\ tokens = <<TokIdentifier("x"), Plus, EOF>>
    /\ ParseDone
    /\ IsErr(pret)
    /\ parsed = pret

(***************************************************************************)
(* Claims about main.                                                      *)
(***************************************************************************)
\* main has the result of check_types
Checked == astack = <<>> /\ aret # None

====
